---- MODULE Spec2Model ----
(***************************************************************************)
(* rcpt: run one command, write an execution receipt as JSON, exit with    *)
(* the command's exit code.  Model of src/src/main.rs.                     *)
(*                                                                         *)
(* An invocation of the binary is a process p of Procs.  Its argv and the  *)
(* behaviour of the executable it names are drawn in Init; the file        *)
(* system, the wall clock and the monotonic clock are shared.              *)
(***************************************************************************)
EXTENDS Integers, Sequences, FiniteSets, TLC

\* ------------------------------------------------------------- bounds
\* child exit codes range over 0..MaxExit
MaxExit == 2
\* the clocks range over 0..MaxTick (milliseconds)
MaxTick == 1
\* a write(2) that stops short stops after a multiple of Block lines
Block == 5

\* ---------------------------------------------------------- the inputs
Procs == {1, 2}

\* An OsString is a sequence of units; "BAD" stands for a byte sequence that
\* is not valid UTF-8.
\* the command vectors of a Run invocation: none, an executable alone, an
\* executable and an argument
CommandVectors == {<<>>, <<<<"x">>>>, <<<<"x", "BAD">>>>, <<<<"x", "BAD">>, <<"x">>>>}

\* A path is the sequence of its components; the component "/" is the root.
Root == <<"/">>
OutPaths == {Root, <<"c">>, <<"a", "b", "c">>}
DefaultOut == <<"c">>

\* ------------------------------------------------------------- options
None == <<>>
Some(x) == <<x>>
IsSome(o) == o # <<>>
UnwrapOr(o, d) == IF o = <<>> THEN d ELSE o[1]

\* ----------------------------------------------------------- rendering
\* String::from_utf8_lossy / OsStr::to_string_lossy: every invalid sequence
\* becomes U+FFFD, everything else is kept.
ToStringLossy(s) == [i \in DOMAIN s |-> IF s[i] = "BAD" THEN "U+FFFD" ELSE s[i]]

DigitChar == <<"0", "1", "2", "3", "4", "5", "6", "7", "8", "9">>

\* the decimal rendering of a number n >= 0
RECURSIVE Decimal(_)
Decimal(n) ==
    IF n < 10 THEN <<DigitChar[n + 1]>>
    ELSE Decimal(n \div 10) \o <<DigitChar[(n % 10) + 1]>>

\* One line of the pretty-printed JSON: key k, token type t, text v.
Line(k, t, v) == [k |-> k, t |-> t, v |-> v]

\* what a hole in a file reads as (bytes a write skipped over)
Hole == Line("", "nul", <<>>)

ArgsLines(args) ==
    IF args = <<>> THEN <<Line("args", "[]", <<>>)>>
    ELSE <<Line("args", "[", <<>>)>>
         \o [i \in DOMAIN args |-> Line("", "str", args[i])]
         \o <<Line("", "]", <<>>)>>

\* serde_json::to_string_pretty(receipt): the fields in declaration order,
\* None as null.
Serialize(r) ==
    <<Line("", "{", <<>>), Line("command", "str", r.command)>>
    \o ArgsLines(r.args)
    \o << IF IsSome(r.exit_code)
            THEN Line("exit_code", "num", Decimal(r.exit_code[1]))
            ELSE Line("exit_code", "null", <<>>),
          Line("stdout", "str", r.stdout),
          Line("stderr", "str", r.stderr),
          Line("start_time", "time", Decimal(r.start_time)),
          Line("end_time", "time", Decimal(r.end_time)),
          Line("duration_ms", "num", Decimal(r.duration_ms)),
          Line("", "}", <<>>) >>

\* ------------------------------------------------------------ the paths
\* Path::parent: None for the root and for the empty path, otherwise the path
\* without its last component (the empty path for a bare file name).
Parent(path) ==
    IF path = Root \/ path = <<>> THEN None
    ELSE Some(SubSeq(path, 1, Len(path) - 1))

\* the non-empty prefixes of a path: the path and its ancestors
Prefixes(path) == {SubSeq(path, 1, n) : n \in 1..Len(path)}

\* every place of the file system the invocations can name
Nodes == UNION {Prefixes(path) : path \in OutPaths}

Absent == [t |-> "none", data |-> <<>>]
Dir == [t |-> "dir", data |-> <<>>]
File(data) == [t |-> "file", data |-> data]

\* a directory in which a path's last component can be looked up or created
ParentIsDir(f, path) ==
    \/ Len(path) = 1
    \/ Len(path) > 1 /\ f[SubSeq(path, 1, Len(path) - 1)].t = "dir"

\* ---------------------------------------------------------- exit codes
\* clap's Error::exit() on a usage error
UsageExitCode == 2
\* Termination for Result: main returning Err
FailureExitCode == 1
\* a panic of the main thread
PanicExitCode == 101
\* receipt.exit_code.unwrap_or(1)
SignalFallback == 1

\* ------------------------------------------------------------ the state
VARIABLES
    inv,    \* inv[p]: the invocation p (its argv, locals, streams, exit code)
    fs,     \* the file system: node -> Absent, Dir or File(data)
    fs0,    \* the file system as the invocations found it
    wall,   \* the wall clock (Utc::now)
    mono,   \* the monotonic clock (Instant::now)
    done,   \* the invocations whose write_receipt returned Ok, in that order
    overlap \* two invocations had the output file open for writing at once

vars == <<inv, fs, fs0, wall, mono, done, overlap>>

\* what the old file at an output path holds: longer than any new receipt
OldReceipt ==
    [command |-> <<"old">>, args |-> <<<<"old">>, <<"old">>>>,
     exit_code |-> None, stdout |-> <<>>, stderr |-> <<>>,
     start_time |-> 0, end_time |-> 0, duration_ms |-> 0]
OldData == Serialize(OldReceipt)

\* the file systems an invocation can find: the root is a directory, and a
\* node exists only inside a directory
FileSystems ==
    {f \in [Nodes -> {Absent, Dir, File(OldData)}] :
        /\ f[Root] = Dir
        /\ \A n \in Nodes : f[n] # Absent => ParentIsDir(f, n)}

\* argv, as clap sees it: --help, no subcommand, or run [--out p] [command..]
Argvs ==
    {[form |-> "help", out |-> DefaultOut, command |-> <<>>],
     [form |-> "nosub", out |-> DefaultOut, command |-> <<>>]}
    \cup [form : {"run"}, out : OutPaths, command : CommandVectors]

\* how the child ends: ExitStatus::code() is Some for exited, None for signaled
Statuses ==
    [kind : {"exited"}, code : 0..MaxExit] \cup {[kind |-> "signaled", code |-> 9]}
Outputs ==
    {[out |-> <<>>, err |-> <<>>], [out |-> <<"h", "BAD">>, err |-> <<"e">>]}
\* what the executable named by argv does when run
NoChild ==
    [spawns |-> FALSE, status |-> [kind |-> "exited", code |-> 0],
     io |-> [out |-> <<>>, err |-> <<>>]]
Children == [spawns : {TRUE}, status : Statuses, io : Outputs] \cup {NoChild}

Fresh(a, c) ==
    [pc |-> "parse", argv |-> a, child |-> c,
     start_time |-> 0, start_instant |-> 0,
     receipt |-> None, json |-> <<>>, offset |-> 0,
     exit |-> None, stdout |-> <<>>, stderr |-> None,
     spawnAttempts |-> 0, children |-> 0, childDone |-> FALSE,
     writeAttempted |-> FALSE, effects |-> {}, setBack |-> FALSE]

NotInvoked ==
    [Fresh([form |-> "help", out |-> DefaultOut, command |-> <<>>], NoChild)
        EXCEPT !.pc = "off"]

\* an argv and what its executable does; an argv that names no executable
\* has no child to describe
ChildrenOf(a) == IF a.command = <<>> THEN {NoChild} ELSE Children
Invocations == UNION {{Fresh(a, c) : c \in ChildrenOf(a)} : a \in Argvs}

\* one invocation, any argv, any child, any file system
Init ==
    /\ \E i \in Invocations :
          inv = [p \in Procs |-> IF p = 1 THEN i ELSE NotInvoked]
    /\ fs \in FileSystems /\ fs0 = fs
    /\ wall = 0 /\ mono = 0
    /\ done = <<>> /\ overlap = FALSE

\* ---------------------------------------------------------- the errors
\* an anyhow error as main reports it: its context and the name it carries
Error(kind, text) == [kind |-> kind, text |-> text]

\* mutant of MainErr: the error is printed but the process exits with 0
MainErrExitZero(r, e) ==
    [r EXCEPT !.pc = "exited", !.stderr = Some(e), !.exit = Some(0)]

\* mutant of MainErr: the error is unwrapped, a panic, instead of returned
MainErrPanic(r, e) ==
    [r EXCEPT !.pc = "exited", !.stderr = Some(e), !.exit = Some(PanicExitCode)]

\* main returns Err(e) (the ? of lines 60 and 61): the runtime prints the
\* error on stderr and the process exits with the failure code.
MainErr(r, e) ==
    [r EXCEPT !.pc = "exited", !.stderr = Some(e), !.exit = Some(FailureExitCode)]

\* ------------------------------------------------------------ Cli::parse
\* mutant of CliParse: a missing command shows the help instead of failing
CliParseHelpWhenEmpty(a) ==
    IF a.form = "help" \/ (a.form = "run" /\ a.command = <<>>) THEN "help"
    ELSE IF a.form # "run" THEN "error"
    ELSE "run"

\* clap's verdict on argv: "help" (--help: printed on stdout, exit 0),
\* "error" (no subcommand, or the required command is missing) or "run".
CliParse(a) ==
    IF a.form = "help" THEN "help"
    ELSE IF a.form # "run" \/ a.command = <<>> THEN "error"
    ELSE "run"

\* main, line 56: Cli::parse() exits the process itself unless argv is valid
Parse(p) ==
    /\ inv[p].pc = "parse"
    /\ inv' = [inv EXCEPT ![p] =
          CASE CliParse(@.argv) = "help" ->
                 [@ EXCEPT !.pc = "exited", !.exit = Some(0),
                           !.stdout = Append(@, [kind |-> "help", path |-> <<>>])]
            [] CliParse(@.argv) = "error" ->
                 [@ EXCEPT !.pc = "exited", !.exit = Some(UsageExitCode),
                           !.stderr = Some(Error("usage", <<>>))]
            [] OTHER -> [@ EXCEPT !.pc = "exec"]]
    /\ UNCHANGED <<fs0, fs, wall, mono, done, overlap>>

\* -------------------------------------------------------- execute_command
\* lines 71-85: the empty check, the two clock reads, the one spawn attempt
Execute(p) ==
    /\ inv[p].pc = "exec"
    /\ LET command_parts == inv[p].argv.command IN
       IF command_parts = <<>>
       THEN inv' = [inv EXCEPT ![p] = MainErr(@, Error("No command specified", <<>>))]
       ELSE LET cmd == Head(command_parts) IN
            IF inv[p].child.spawns
            THEN inv' = [inv EXCEPT ![p].pc = "wait",
                                    ![p].start_time = wall,
                                    ![p].start_instant = mono,
                                    ![p].spawnAttempts = @ + 1,
                                    ![p].children = @ + 1]
            ELSE inv' = [inv EXCEPT ![p] =
                     MainErr([@ EXCEPT !.start_time = wall,
                                       !.start_instant = mono,
                                       !.spawnAttempts = @ + 1],
                             Error("Failed to execute command", ToStringLossy(cmd)))]
    /\ UNCHANGED <<fs0, fs, wall, mono, done, overlap>>

\* ExitStatus::code()
StatusCode(st) == IF st.kind = "exited" THEN Some(st.code) ELSE None

\* mutant of ElapsedMs: the operands of the subtraction swapped
ElapsedMsSwapped(start_instant) == start_instant - mono

\* start_instant.elapsed().as_millis() as u64: the monotonic time since
\* start_instant (far below 2^64 ms, so the cast changes nothing)
ElapsedMs(start_instant) == mono - start_instant

\* lines 90-99
MakeReceipt(command_parts, child, start_time, end_time, duration_ms) ==
    [command |-> ToStringLossy(Head(command_parts)),
     args |-> [i \in 1..(Len(command_parts) - 1) |->
                  ToStringLossy(command_parts[i + 1])],
     exit_code |-> StatusCode(child.status),
     stdout |-> ToStringLossy(child.io.out),
     stderr |-> ToStringLossy(child.io.err),
     start_time |-> start_time,
     end_time |-> end_time,
     duration_ms |-> duration_ms]

\* mutant of ChildTerminates: a child that did not exit with 0 is an error
ChildTerminatesChecked(p) ==
    /\ inv[p].pc = "wait"
    /\ LET r == [inv[p] EXCEPT !.childDone = TRUE,
                               !.receipt =
                                   Some(MakeReceipt(inv[p].argv.command, inv[p].child,
                                                    inv[p].start_time, wall,
                                                    ElapsedMs(inv[p].start_instant)))]
       IN  inv' = [inv EXCEPT ![p] =
                      IF inv[p].child.status = [kind |-> "exited", code |-> 0]
                      THEN [r EXCEPT !.pc = "write"]
                      ELSE MainErr(r, Error("command failed", <<>>))]
    /\ UNCHANGED <<fs0, fs, wall, mono, done, overlap>>

\* lines 82-101: output() returns once the child has terminated; the clocks
\* are read again and the receipt is built
ChildTerminates(p) ==
    /\ inv[p].pc = "wait"
    /\ inv' = [inv EXCEPT ![p].pc = "write",
                          ![p].childDone = TRUE,
                          ![p].receipt =
                              Some(MakeReceipt(inv[p].argv.command, inv[p].child,
                                               inv[p].start_time, wall,
                                               ElapsedMs(inv[p].start_instant)))]
    /\ UNCHANGED <<fs0, fs, wall, mono, done, overlap>>

\* ------------------------------------------------------------ write_receipt
\* mutant of MakeDirs: create_dir, which makes the last directory only
MakeDirsLastOnly(f, dir) == [n \in Nodes |-> IF n = dir THEN Dir ELSE f[n]]

\* fs::create_dir_all(dir) succeeding: dir and its missing ancestors exist
MakeDirs(f, dir) == [n \in Nodes |-> IF n \in Prefixes(dir) THEN Dir ELSE f[n]]

\* create_dir_all cannot succeed: some component of dir is a file
Blocked(f, dir) == \E n \in Prefixes(dir) : f[n].t = "file"

\* lines 105-116: serialize, then create the parent directories when the path
\* has a non-empty parent.  A failing create_dir_all may have created some of
\* the ancestors already.
CreateDirs(p) ==
    /\ inv[p].pc = "write"
    /\ LET path == inv[p].argv.out
           parent == Parent(path)
           r == [inv[p] EXCEPT !.json = Serialize(inv[p].receipt[1]),
                               !.writeAttempted = TRUE]
       IN  IF parent = None \/ parent = Some(<<>>)
           THEN /\ inv' = [inv EXCEPT ![p] = [r EXCEPT !.pc = "open"]]
                /\ fs' = fs
           ELSE \/ /\ ~Blocked(fs, parent[1])
                   /\ fs' = MakeDirs(fs, parent[1])
                   /\ inv' = [inv EXCEPT ![p] =
                                 [r EXCEPT !.pc = "open",
                                           !.effects = @ \cup {"mkdir"}]]
                \/ \E k \in 0..(Len(parent[1]) - 1) :
                   /\ ~Blocked(fs, SubSeq(parent[1], 1, k))
                   /\ fs' = MakeDirs(fs, SubSeq(parent[1], 1, k))
                   /\ inv' = [inv EXCEPT ![p] =
                                 MainErr([r EXCEPT !.effects =
                                              IF fs' # fs THEN @ \cup {"mkdir"} ELSE @],
                                         Error("Failed to create parent directories for",
                                               path))]
    /\ UNCHANGED <<fs0, wall, mono, done, overlap>>

\* mutant of WriteFailed: the result of fs::write is dropped
WriteFailedIgnored(r, path) == [r EXCEPT !.pc = "print"]

\* lines 118-119: fs::write failed; the error, with its context, leaves main
WriteFailed(r, path) == MainErr(r, Error("Failed to write receipt to", path))

\* File::create can open the path: it is no directory and lies in one
CanCreate(f, path) == f[path].t # "dir" /\ ParentIsDir(f, path)

\* mutant of Truncated: the file is opened without truncating it
TruncatedNot(node) == IF node.t = "file" THEN node ELSE File(<<>>)

\* what File::create leaves at the path: the file, truncated
Truncated(node) == File(<<>>)

\* line 118, fs::write's File::create: create or truncate the file
OpenFile(p) ==
    /\ inv[p].pc = "open"
    /\ LET path == inv[p].argv.out IN
       \/ /\ CanCreate(fs, path)
          /\ fs' = [fs EXCEPT ![path] = Truncated(@)]
          /\ inv' = [inv EXCEPT ![p].pc = "writing",
                                ![p].offset = 0,
                                ![p].effects = @ \cup {"open"}]
          /\ overlap' = (overlap \/ \E q \in Procs \ {p} :
                            inv[q].pc = "writing" /\ inv[q].argv.out = path)
       \/ /\ fs' = fs
          /\ inv' = [inv EXCEPT ![p] = WriteFailed(@, path)]
          /\ overlap' = overlap
    /\ UNCHANGED <<fs0, wall, mono, done>>

\* write(2) of chunk at offset off: the bytes land there, the file grows as
\* needed, and what the write skipped over reads as a hole
WriteAt(data, off, chunk) ==
    [i \in 1..(IF Len(data) > off + Len(chunk) THEN Len(data) ELSE off + Len(chunk)) |->
        IF i > off /\ i <= off + Len(chunk) THEN chunk[i - off]
        ELSE IF i <= Len(data) THEN data[i] ELSE Hole]

\* how much one write(2) of rem lines may transfer: all of it, or less
ShortWrites(rem) == {k \in 1..rem : k = rem \/ k % Block = 0}

\* line 118, fs::write's write_all: one write(2) of the rest or of a part of
\* it; after the last one write_receipt returns Ok
WriteChunk(p) ==
    /\ inv[p].pc = "writing"
    /\ LET path == inv[p].argv.out
           json == inv[p].json
           off == inv[p].offset
       IN  \/ \E k \in ShortWrites(Len(json) - off) :
              /\ fs' = [fs EXCEPT ![path].data =
                           WriteAt(@, off, SubSeq(json, off + 1, off + k))]
              /\ inv' = [inv EXCEPT ![p].offset = off + k,
                                    ![p].effects = @ \cup {"write"},
                                    ![p].pc = IF off + k = Len(json)
                                              THEN "print" ELSE "writing"]
              /\ done' = IF off + k = Len(json) THEN Append(done, p) ELSE done
           \/ /\ fs' = fs
              /\ inv' = [inv EXCEPT ![p] = WriteFailed(@, path)]
              /\ done' = done
    /\ UNCHANGED <<fs0, wall, mono, overlap>>

\* ------------------------------------------------------------------ main
\* mutant of WrapperExit: main returns Ok(()) instead of calling exit
WrapperExitZero(receipt) == 0

\* the wrapper's exit code, line 66
WrapperExit(receipt) == UnwrapOr(receipt.exit_code, SignalFallback)

\* lines 62-66: println! (which panics when stdout cannot be written), then
\* process::exit with the child's code
PrintAndExit(p) ==
    /\ inv[p].pc = "print"
    /\ \/ inv' = [inv EXCEPT ![p].pc = "exited",
                             ![p].stdout = Append(@, [kind |-> "written",
                                                      path |-> inv[p].argv.out]),
                             ![p].effects = @ \cup {"print"},
                             ![p].exit = Some(WrapperExit(inv[p].receipt[1]))]
       \/ inv' = [inv EXCEPT ![p].pc = "exited",
                             ![p].stderr = Some(Error("failed printing to stdout", <<>>)),
                             ![p].exit = Some(PanicExitCode)]
    /\ UNCHANGED <<fs0, fs, wall, mono, done, overlap>>

\* ------------------------------------------------------------ the clocks
\* some invocation has a clock read ahead of it
ClockRead == \E p \in Procs : inv[p].pc \in {"parse", "exec", "wait"}

\* time passes: both clocks advance
Tick ==
    /\ ClockRead
    /\ mono < MaxTick
    /\ mono' = mono + 1
    /\ wall' = IF wall < MaxTick THEN wall + 1 ELSE wall
    /\ UNCHANGED <<fs0, inv, fs, done, overlap>>

\* the wall clock is set (NTP, an operator): Utc::now follows, Instant does not
ClockAdjust ==
    /\ ClockRead
    /\ \E w \in (0..MaxTick) \ {wall} :
          /\ wall' = w
          /\ inv' = [p \in Procs |->
                        IF inv[p].pc = "wait" /\ w < wall
                        THEN [inv[p] EXCEPT !.setBack = TRUE] ELSE inv[p]]
    /\ UNCHANGED <<fs0, fs, mono, done, overlap>>

Step(p) ==
    \/ Parse(p)
    \/ Execute(p)
    \/ ChildTerminates(p)
    \/ CreateDirs(p)
    \/ OpenFile(p)
    \/ WriteChunk(p)
    \/ PrintAndExit(p)

Next == (\E p \in Procs : Step(p)) \/ Tick \/ ClockAdjust

Spec == Init /\ [][Next]_vars

\* two invocations at once, both told to write the default path
ConcInvocations ==
    {i \in Invocations :
        /\ CliParse(i.argv) = "run" /\ i.argv.out = DefaultOut
        /\ i.argv.command \in {<<<<"x">>>>, <<<<"x", "BAD">>, <<"x">>>>}
        /\ i.child.spawns /\ i.child.io.out = <<>>
        /\ i.child.status.code \in {0, 9}}

InitConc ==
    /\ inv \in [Procs -> ConcInvocations]
    /\ fs \in {f \in FileSystems : f[<<"a">>] = Absent /\ f[DefaultOut] # Dir}
    /\ fs0 = fs
    /\ wall = 0 /\ mono = 0
    /\ done = <<>> /\ overlap = FALSE

NextConc == \E p \in Procs : Step(p)

SpecConc == InitConc /\ [][NextConc]_vars

\* =============================================================== claims
Invoked(p) == inv[p].pc # "off"
Exited(p) == inv[p].pc = "exited"
\* argv passed the argument parser
Parsed(p) == Invoked(p) /\ CliParse(inv[p].argv) = "run"
\* the child of p has terminated, and how
ChildExited(p, c) ==
    inv[p].childDone /\ inv[p].child.status = [kind |-> "exited", code |-> c]
ChildSignaled(p) == inv[p].childDone /\ inv[p].child.status.kind = "signaled"
\* the context of the error the wrapper reported, "" for none
ErrKind(p) == IF inv[p].stderr = None THEN "" ELSE inv[p].stderr[1].kind
ErrText(p) == inv[p].stderr[1].text
\* the success line is on stdout
Printed(p) == \E i \in DOMAIN inv[p].stdout : inv[p].stdout[i].kind = "written"
\* write_receipt returned Ok
Written(p) == \E i \in DOMAIN done : done[i] = p
OutFile(p) == fs[inv[p].argv.out]
\* the exit_code entries of a receipt file
ExitCodeLines(data) == SelectSeq(data, LAMBDA l : l.k = "exit_code")
WriteErrors == {"Failed to create parent directories for", "Failed to write receipt to"}
SpawnError == "Failed to execute command"
PrintPanic == "failed printing to stdout"

\* C1 as stated: whenever the child exited normally with code c, the wrapper
\* exits with c and the receipt written holds exit_code c.
C1_Original ==
    \A p \in Procs : \A c \in 0..MaxExit :
        (Exited(p) /\ ChildExited(p, c)) =>
            /\ inv[p].exit = Some(c)
            /\ Written(p) =>
                  ExitCodeLines(OutFile(p).data)
                      = <<Line("exit_code", "num", Decimal(c))>>

\* C1 (amended): when the child exited normally with code c, a receipt that
\* write_receipt wrote is the serialization of the receipt and holds
\* exit_code c; the wrapper exits with c when it reports no failure of its
\* own, with 1 when creating the directories or writing the file failed, and
\* with 101 when printing the success line panicked.
C1_ExitCodePropagated ==
    \A p \in Procs : \A c \in 0..MaxExit :
        ChildExited(p, c) =>
            /\ Written(p) =>
                  /\ OutFile(p) = File(Serialize(inv[p].receipt[1]))
                  /\ ExitCodeLines(OutFile(p).data)
                        = <<Line("exit_code", "num", Decimal(c))>>
            /\ Exited(p) =>
                  inv[p].exit = Some(CASE ErrKind(p) = "" -> c
                                       [] ErrKind(p) = PrintPanic -> PanicExitCode
                                       [] OTHER -> FailureExitCode)

C1_Witness ==
    /\ Exited(1) /\ ChildExited(1, MaxExit) /\ Written(1) /\ Printed(1)
    /\ inv[1].exit = Some(MaxExit)

\* C2: exit_code is present in the receipt exactly when the child exited
\* normally; for a child killed by a signal the receipt written holds
\* exit_code null and the wrapper exits with 1.
C2_SignalExitsOne ==
    \A p \in Procs :
        /\ inv[p].receipt # None =>
              (IsSome(inv[p].receipt[1].exit_code)
                  <=> inv[p].child.status.kind = "exited")
        /\ ChildSignaled(p) =>
              /\ Written(p) =>
                    ExitCodeLines(OutFile(p).data)
                        = <<Line("exit_code", "null", <<>>)>>
              /\ Exited(p) => inv[p].exit = Some(1)

\* C3: when the executable cannot be spawned, the error names the executable
\* (lossily decoded), no receipt exists, write_receipt was not entered, the
\* file system is as it was found, stdout is empty and the exit code is not 0.
C3_SpawnFailure ==
    \A p \in Procs :
        (Parsed(p) /\ inv[p].spawnAttempts = 1 /\ ~inv[p].child.spawns) =>
            /\ Exited(p)
            /\ inv[p].stderr = Some(Error(SpawnError,
                                          ToStringLossy(inv[p].argv.command[1])))
            /\ inv[p].receipt = None /\ inv[p].children = 0
            /\ ~inv[p].writeAttempted /\ inv[p].effects = {}
            /\ fs = fs0
            /\ inv[p].stdout = <<>>
            /\ IsSome(inv[p].exit) /\ inv[p].exit # Some(0)

C3_Witness ==
    /\ Exited(1) /\ ErrKind(1) = SpawnError
    /\ inv[1].argv.command[1] = <<"x", "BAD">> /\ ErrText(1) = <<"x", "U+FFFD">>
    /\ fs0[inv[1].argv.out] = File(OldData)

\* C4 as stated: every failure of the wrapper itself (rejected arguments,
\* spawn failure, directory or file write failure) exits with exactly 1.
C4_Original ==
    \A p \in Procs :
        (Exited(p) /\ ErrKind(p) \in {"usage", SpawnError} \cup WriteErrors) =>
            inv[p].exit = Some(1)

\* C4 (amended): a spawn failure, a directory-creation failure and a file
\* write failure exit with 1; arguments rejected by the argument parser exit
\* with 2.
C4_FailureExitCodes ==
    \A p \in Procs :
        Exited(p) =>
            /\ ErrKind(p) \in {SpawnError} \cup WriteErrors => inv[p].exit = Some(1)
            /\ ErrKind(p) = "usage" => inv[p].exit = Some(2)
            /\ (Invoked(p) /\ CliParse(inv[p].argv) = "error") => ErrKind(p) = "usage"

C4_Witness ==
    /\ Exited(1) /\ inv[1].argv.form = "run" /\ inv[1].argv.command = <<>>
    /\ ErrKind(1) = "usage" /\ inv[1].exit = Some(2)

\* C5: an invocation without command tokens ends in a usage error: a message
\* on stderr, an exit code that is not 0, no spawn attempt, no child, no
\* receipt, and the file system as it was found.
C5_NoCommandIsUsageError ==
    \A p \in Procs :
        (Invoked(p) /\ inv[p].argv.form # "help" /\ inv[p].argv.command = <<>>) =>
            /\ inv[p].spawnAttempts = 0 /\ inv[p].children = 0
            /\ inv[p].receipt = None /\ ~inv[p].writeAttempted
            /\ inv[p].effects = {} /\ fs = fs0
            /\ inv[p].stdout = <<>>
            /\ Exited(p) =>
                  /\ inv[p].stderr # None
                  /\ IsSome(inv[p].exit) /\ inv[p].exit # Some(0)

C5_Witness ==
    /\ Exited(1) /\ inv[1].argv.form = "run" /\ inv[1].argv.command = <<>>
    /\ inv[1].stderr # None /\ fs0[inv[1].argv.out] = Absent

\* C6: the success line is printed only after write_receipt returned Ok; a
\* failed directory creation or file write is reported with the path, prints
\* no success line and exits with a code that is not 0, whatever the child's
\* exit code.
C6_PrintOnlyAfterWrite ==
    \A p \in Procs :
        /\ Printed(p) => Written(p)
        /\ ErrKind(p) \in WriteErrors =>
              /\ ErrText(p) = inv[p].argv.out
              /\ ~Written(p) /\ ~Printed(p)
              /\ Exited(p) /\ IsSome(inv[p].exit) /\ inv[p].exit # Some(0)

C6_Witness ==
    /\ Exited(1) /\ ChildExited(1, 0) /\ ErrKind(1) = "Failed to write receipt to"
    /\ inv[1].offset > 0 /\ inv[1].exit = Some(1) /\ ~Printed(1)

\* C7: after write_receipt returned Ok, whatever the file system was: a
\* non-empty parent of the path and all its ancestors are directories, the
\* file at the path holds exactly the serialization of the receipt (whatever
\* it held before), nothing else has changed, and with an empty parent no
\* directory was created.
C7_WriteReceiptPost ==
    \A p \in Procs :
        Written(p) =>
            LET path == inv[p].argv.out
                parent == Parent(path)
                made == IF parent = None THEN {} ELSE Prefixes(parent[1])
            IN  /\ parent # None
                /\ \A n \in made : fs[n] = Dir
                /\ fs[path] = File(Serialize(inv[p].receipt[1]))
                /\ \A n \in Nodes \ (made \cup {path}) : fs[n] = fs0[n]
                /\ parent = Some(<<>>) => "mkdir" \notin inv[p].effects

C7_Witness ==
    /\ Written(1) /\ inv[1].argv.out = <<"a", "b", "c">>
    /\ fs0[<<"a">>] = Absent /\ fs[<<"a", "b">>] = Dir

\* an old, longer file at the path is replaced
C7_WitnessOverwrite ==
    /\ Written(1) /\ fs0[inv[1].argv.out] = File(OldData)
    /\ Len(fs[inv[1].argv.out].data) < Len(OldData)

\* both invocations have finished and both wrote their receipt
BothWrote == (\A p \in Procs : Exited(p)) /\ Len(done) = 2

\* C8 as stated: whatever the interleaving of the two writes, once both
\* invocations have finished the file holds the complete receipt of the one
\* whose write completed last.
C8_Original ==
    BothWrote => fs[DefaultOut] = File(inv[done[2]].json)

\* C8 (amended): when the two writes do not overlap (neither invocation
\* opens the file while the other has it open for writing), the file holds
\* the complete receipt of the invocation whose write completed last.
C8_LastWriterWinsSequential ==
    (BothWrote /\ ~overlap) => fs[DefaultOut] = File(inv[done[2]].json)

C8_Witness ==
    /\ BothWrote /\ ~overlap
    /\ Len(inv[done[1]].json) > Len(inv[done[2]].json)
    /\ fs[DefaultOut] = File(inv[done[2]].json)

\* C9 as stated: in every receipt duration_ms >= 0 and end_time >= start_time,
\* also when the wall clock is adjusted while the child runs.
C9_Original ==
    \A p \in Procs :
        inv[p].receipt # None =>
            /\ inv[p].receipt[1].duration_ms >= 0
            /\ inv[p].receipt[1].end_time >= inv[p].receipt[1].start_time

\* C9 (amended): in every receipt duration_ms >= 0 and is no more than the
\* monotonic time that has passed, start_time is the wall clock's value read
\* before the spawn, and end_time >= start_time unless the wall clock was set
\* back while the child ran.
C9_Timing ==
    \A p \in Procs :
        inv[p].receipt # None =>
            LET r == inv[p].receipt[1] IN
            /\ r.duration_ms >= 0 /\ r.duration_ms <= mono
            /\ r.start_time = inv[p].start_time
            /\ ~inv[p].setBack => r.end_time >= r.start_time

C9_Witness ==
    /\ inv[1].receipt # None /\ inv[1].setBack
    /\ inv[1].receipt[1].end_time < inv[1].receipt[1].start_time
    /\ inv[1].receipt[1].duration_ms > 0

\* C10: an invocation that passed argument parsing makes exactly one spawn
\* attempt and has at most one child; it creates no directory, writes no file
\* and prints nothing before the child has terminated; and once the child was
\* spawned, however it ends, write_receipt is attempted.
C10_OneChildThenWrite ==
    \A p \in Procs :
        Parsed(p) =>
            /\ inv[p].spawnAttempts <= 1 /\ inv[p].children <= inv[p].spawnAttempts
            /\ inv[p].pc \notin {"parse", "exec"} => inv[p].spawnAttempts = 1
            /\ (inv[p].effects # {} \/ inv[p].stdout # <<>> \/ fs # fs0)
                  => inv[p].childDone
            /\ (Exited(p) /\ inv[p].children = 1) => inv[p].writeAttempted

C10_Witness ==
    /\ Exited(1) /\ ChildSignaled(1) /\ inv[1].children = 1
    /\ inv[1].writeAttempted /\ "write" \in inv[1].effects

====
